---- MODULE Spec2Model ----
(***************************************************************************)
(* Slot manager of the taulu e-ink photo frame server                      *)
(* (src/taulu-api/main.py, class DailyImageManager and its HTTP callers).  *)
(*                                                                         *)
(* daily_images is a Python list (0-based); here it is a sequence, so the  *)
(* Python element daily_images[i] is daily_images[i + 1].  An image entry  *)
(* {'id': a, 'path': READY_DIR/a.bin} is represented by its asset id a.    *)
(* Every `with self.update_lock:` block is one atomic step.                *)
(***************************************************************************)
EXTENDS Integers, Sequences, FiniteSets, TLC

\* ---- bounds of the model ----
NumAssets == 2          \* asset ids the photo library can return
MaxDay    == 2          \* calendar days the clock runs through
NumPeople == 2          \* person ids known to the photo library
MaxCalls  == 2          \* selections made in a row from one library
MaxPairs  == 2          \* pixel pairs (output bytes) in a raster row
MaxDim    == 12         \* largest width and height of a source image
MaxSide   == 2          \* largest width and height of a raster to dither

\* ---- program constants ----
InitialFetchCount == 3  \* `for i in range(3)` of _update_image
NoDate == 0             \* last_update_date = None
TargetWidth  == 1600    \* resize_and_truncate(image, (1600, 1200))
TargetHeight == 1200

Assets  == 1..NumAssets
Days    == 1..MaxDay
Actions == {"next", "previous", "refresh", ""}

VARIABLES
    daily_images,       \* self.daily_images: sequence of asset ids
    current_index,      \* self.current_index (0-based)
    last_update_date,   \* self.last_update_date (NoDate or a day)
    updating,           \* self.updating
    threads,            \* running background threads, in start order
    disk,               \* contents of STATE_FILE
    files,              \* asset ids whose READY_DIR/<id>.bin exists
    immich_client,      \* TRUE iff immich_client is not None
    today,              \* datetime.date.today()
    op,                 \* name of the step taken last
    nextFrom,           \* current_index before the latest 'next' that found
                        \* images, -1 once another request was handled
    update_lock,        \* TRUE while self.update_lock is held between steps
    writing,            \* asset ids whose .bin file is open for writing
    request,            \* the GET /api/image.bin being handled
    input,              \* argument of the pure function under study
    output              \* what the pure function returned for it

vars == <<daily_images, current_index, last_update_date, updating, threads,
          disk, files, immich_client, today, op, nextFrom, update_lock,
          writing, request, input, output>>

\* the variables of the slot manager and its environment
managerVars == <<daily_images, current_index, last_update_date, updating,
                 threads, disk, files, immich_client, today, op, nextFrom,
                 update_lock, writing, request>>

\* no pure function is being studied
NoCall == input = <<>> /\ output = <<>>

\* no GET /api/image.bin is being handled; data is what the last one returned
NoRequest == [pc |-> "idle", image |-> 0, data |-> "none"]

\* `with self.update_lock:` around a step: the lock is free when the block is
\* entered and released when it is left
WithLock ==
    /\ ~update_lock /\ update_lock' = FALSE
    /\ UNCHANGED <<writing, request, input, output>>

\* a step that never touches self.update_lock
WithoutLock == UNCHANGED <<update_lock, writing, request, input, output>>

\* The manager object (with its threads and state file) as one value.
Mgr == [daily_images |-> daily_images, current_index |-> current_index,
        last_update_date |-> last_update_date, updating |-> updating,
        threads |-> threads, disk |-> disk]

SetMgr(m) ==
    /\ daily_images' = m.daily_images
    /\ current_index' = m.current_index
    /\ last_update_date' = m.last_update_date
    /\ updating' = m.updating
    /\ threads' = m.threads
    /\ disk' = m.disk

NoStateFile == [exists |-> FALSE, date |-> NoDate, images |-> <<>>, currentIndex |-> 0]

\* threading.Thread(target=self._update_image): loop variable i is `slot`.
\* filled counts the _fetch_and_store_image calls that returned True; moved
\* records a next/previous handled since the thread reset current_index.
InitialThread ==
    [kind |-> "initial", slot |-> 0, pc |-> "start", today |-> NoDate,
     asset |-> 0, filled |-> 0, moved |-> FALSE]

\* threading.Thread(target=self._fetch_image_for_slot, args=(slot,))
SlotThread(slot) ==
    [kind |-> "slot", slot |-> slot, pc |-> "start", today |-> NoDate,
     asset |-> 0, filled |-> 0, moved |-> FALSE]

\* save_state: STATE_FILE := {date, images, currentIndex}
save_state(m) ==
    [m EXCEPT !.disk = [exists |-> TRUE, date |-> m.last_update_date,
                        images |-> m.daily_images,
                        currentIndex |-> m.current_index]]

\* load_state without the filter on os.path.exists(img['path'])
load_state_keeping_missing(d, fs) ==
    [daily_images |-> IF d.exists THEN d.images ELSE <<>>,
     current_index |-> IF d.exists THEN d.currentIndex ELSE 0,
     last_update_date |-> IF d.exists THEN d.date ELSE NoDate,
     updating |-> FALSE,
     threads |-> <<>>,
     disk |-> d]

\* __init__ followed by load_state, reading state file d with bitmap files fs
load_state(d, fs) ==
    [daily_images |-> IF d.exists THEN SelectSeq(d.images, LAMBDA a : a \in fs)
                      ELSE <<>>,
     current_index |-> IF d.exists THEN d.currentIndex ELSE 0,
     last_update_date |-> IF d.exists THEN d.date ELSE NoDate,
     updating |-> FALSE,
     threads |-> <<>>,
     disk |-> d]

\* ensure_daily_image without its `if self.updating: return`
ensure_ignoring_updating(m, t) ==
    IF Len(m.daily_images) = 0
    THEN [m EXCEPT !.updating = TRUE,
                   !.threads = Append(m.threads, InitialThread)]
    ELSE IF m.last_update_date = t THEN m
    ELSE LET m1 == save_state([m EXCEPT !.updating = TRUE,
                                        !.last_update_date = t])
         IN [m1 EXCEPT !.threads =
                 Append(m.threads, SlotThread(Len(m.daily_images) - 1))]

\* ensure_daily_image whose day change refreshes slot 0 and resets the index
ensure_refreshing_slot0(m, t) ==
    IF m.updating THEN m
    ELSE IF Len(m.daily_images) = 0
    THEN [m EXCEPT !.updating = TRUE,
                   !.threads = Append(m.threads, InitialThread)]
    ELSE IF m.last_update_date = t THEN m
    ELSE LET m1 == save_state([m EXCEPT !.updating = TRUE,
                                        !.last_update_date = t,
                                        !.current_index = 0])
         IN [m1 EXCEPT !.threads = Append(m.threads, SlotThread(0))]

\* ensure_daily_image without its `if self.last_update_date == today: return`
ensure_ignoring_date(m, t) ==
    IF m.updating THEN m
    ELSE IF Len(m.daily_images) = 0
    THEN [m EXCEPT !.updating = TRUE,
                   !.threads = Append(m.threads, InitialThread)]
    ELSE LET m1 == save_state([m EXCEPT !.updating = TRUE,
                                        !.last_update_date = t])
         IN [m1 EXCEPT !.threads =
                 Append(m.threads, SlotThread(Len(m.daily_images) - 1))]

\* ensure_daily_image starting the initial fetch whenever fewer than 3 images
\* are stored
ensure_filling_missing(m, t) ==
    IF m.updating THEN m
    ELSE IF Len(m.daily_images) < InitialFetchCount
    THEN [m EXCEPT !.updating = TRUE,
                   !.threads = Append(m.threads, InitialThread)]
    ELSE IF m.last_update_date = t THEN m
    ELSE LET m1 == save_state([m EXCEPT !.updating = TRUE,
                                        !.last_update_date = t])
         IN [m1 EXCEPT !.threads =
                 Append(m.threads, SlotThread(Len(m.daily_images) - 1))]

\* ensure_daily_image leaving the date of a day change to the fetch
ensure_leaving_date(m, t) ==
    IF m.updating THEN m
    ELSE IF Len(m.daily_images) = 0
    THEN [m EXCEPT !.updating = TRUE,
                   !.threads = Append(m.threads, InitialThread)]
    ELSE IF m.last_update_date = t THEN m
    ELSE [m EXCEPT !.updating = TRUE,
                   !.threads = Append(m.threads,
                                      SlotThread(Len(m.daily_images) - 1))]

\* ensure_daily_image recording the date before its `if self.updating` test
ensure_dating_while_updating(m, t) ==
    IF m.updating
    THEN (IF Len(m.daily_images) > 0
          THEN save_state([m EXCEPT !.last_update_date = t]) ELSE m)
    ELSE IF Len(m.daily_images) = 0
    THEN [m EXCEPT !.updating = TRUE,
                   !.threads = Append(m.threads, InitialThread)]
    ELSE IF m.last_update_date = t THEN m
    ELSE LET m1 == save_state([m EXCEPT !.updating = TRUE,
                                        !.last_update_date = t])
         IN [m1 EXCEPT !.threads =
                 Append(m.threads, SlotThread(Len(m.daily_images) - 1))]

ensure_daily_image(m, t) ==
    IF m.updating THEN m
    ELSE IF Len(m.daily_images) = 0
    THEN [m EXCEPT !.updating = TRUE,
                   !.threads = Append(m.threads, InitialThread)]
    ELSE IF m.last_update_date = t THEN m
    ELSE LET m1 == save_state([m EXCEPT !.updating = TRUE,
                                        !.last_update_date = t])
         IN [m1 EXCEPT !.threads =
                 Append(m.threads, SlotThread(Len(m.daily_images) - 1))]

\* a next/previous was handled: note it in the running initial threads
NoteMoved(ts) ==
    [k \in 1..Len(ts) |->
        IF ts[k].kind = "initial" /\ ts[k].pc \notin {"start", "mark"}
        THEN [ts[k] EXCEPT !.moved = TRUE] ELSE ts[k]]

\* handle_action without the `and not self.updating` test of line 229
handle_action_ignoring_updating(m, action) ==
    IF Len(m.daily_images) = 0 THEN m
    ELSE IF action = "next"
    THEN LET old_index == m.current_index
             m1 == save_state([m EXCEPT
                       !.current_index =
                           (m.current_index + 1) % Len(m.daily_images),
                       !.threads = NoteMoved(m.threads)])
         IN [m1 EXCEPT !.updating = TRUE,
                       !.threads = Append(m1.threads, SlotThread(old_index))]
    ELSE IF action = "previous"
    THEN save_state([m EXCEPT
             !.current_index = (m.current_index - 1) % Len(m.daily_images),
             !.threads = NoteMoved(m.threads)])
    ELSE m

\* handle_action whose 'next' refreshes the slot it moved to, unless slot 0
handle_action_refreshing_new(m, action) ==
    IF Len(m.daily_images) = 0 THEN m
    ELSE IF action = "next"
    THEN LET m1 == save_state([m EXCEPT
                       !.current_index =
                           (m.current_index + 1) % Len(m.daily_images),
                       !.threads = NoteMoved(m.threads)])
         IN IF ~m1.updating /\ m1.current_index # 0
            THEN [m1 EXCEPT !.updating = TRUE,
                            !.threads = Append(m1.threads,
                                               SlotThread(m1.current_index))]
            ELSE m1
    ELSE IF action = "previous"
    THEN save_state([m EXCEPT
             !.current_index = (m.current_index - 1) % Len(m.daily_images),
             !.threads = NoteMoved(m.threads)])
    ELSE m

\* handle_action whose 'previous' also sets slot_to_replace
handle_action_previous_fetching(m, action) ==
    IF Len(m.daily_images) = 0 THEN m
    ELSE IF action \in {"next", "previous"}
    THEN LET old_index == m.current_index
             d == IF action = "next" THEN 1 ELSE -1
             m1 == save_state([m EXCEPT
                       !.current_index =
                           (m.current_index + d) % Len(m.daily_images),
                       !.threads = NoteMoved(m.threads)])
         IN IF ~m1.updating
            THEN [m1 EXCEPT !.updating = TRUE,
                            !.threads = Append(m1.threads, SlotThread(old_index))]
            ELSE m1
    ELSE m

\* handle_action whose 'previous' branch lacks its self.save_state()
handle_action_previous_unsaved(m, action) ==
    IF Len(m.daily_images) = 0 THEN m
    ELSE IF action = "next"
    THEN LET old_index == m.current_index
             m1 == save_state([m EXCEPT
                       !.current_index =
                           (m.current_index + 1) % Len(m.daily_images),
                       !.threads = NoteMoved(m.threads)])
         IN IF ~m1.updating
            THEN [m1 EXCEPT !.updating = TRUE,
                            !.threads = Append(m1.threads, SlotThread(old_index))]
            ELSE m1
    ELSE IF action = "previous"
    THEN [m EXCEPT
             !.current_index = (m.current_index - 1) % Len(m.daily_images),
             !.threads = NoteMoved(m.threads)]
    ELSE m

handle_action(m, action) ==
    IF Len(m.daily_images) = 0 THEN m
    ELSE IF action = "next"
    THEN LET old_index == m.current_index
             m1 == save_state([m EXCEPT
                       !.current_index =
                           (m.current_index + 1) % Len(m.daily_images),
                       !.threads = NoteMoved(m.threads)])
         IN IF ~m1.updating
            THEN [m1 EXCEPT !.updating = TRUE,
                            !.threads = Append(m1.threads, SlotThread(old_index))]
            ELSE m1
    ELSE IF action = "previous"
    THEN save_state([m EXCEPT
             !.current_index = (m.current_index - 1) % Len(m.daily_images),
             !.threads = NoteMoved(m.threads)])
    ELSE m

\* GET /api/image.bin after its ensure_daily_image call: the asset id served,
\* 0 for a 404 answer, -1 for the IndexError of daily_images[current_index]
get_image(m, fs) ==
    IF Len(m.daily_images) = 0 THEN 0
    ELSE IF m.current_index >= Len(m.daily_images) THEN -1
    ELSE IF m.daily_images[m.current_index + 1] \notin fs THEN 0
    ELSE m.daily_images[m.current_index + 1]

\* ---- request handlers ----
\* A handler's locked block is one step.  ensure_daily_image reads the date
\* just before taking the lock; handle_action and the day-change branch call
\* thread.start() just after releasing it, with `updating` already set, so
\* the started thread is part of the same step, waiting at its entry.

EnsureDailyImage ==
    /\ SetMgr(ensure_daily_image(Mgr, today))
    /\ op' = "ensure"
    /\ nextFrom' = -1
    /\ WithLock
    /\ UNCHANGED <<files, immich_client, today>>

HandleAction(action) ==
    /\ SetMgr(handle_action(Mgr, action))
    /\ op' = action
    /\ nextFrom' = IF action = "next" /\ Len(daily_images) > 0
                   THEN current_index ELSE -1
    /\ WithLock
    /\ UNCHANGED <<files, immich_client, today>>

\* ---- background threads ----

RemoveAt(s, k) == [j \in 1..(Len(s) - 1) |-> IF j < k THEN s[j] ELSE s[j + 1]]

ThreadFrame == /\ op' = "thread"
               /\ WithLock
               /\ UNCHANGED <<files, immich_client, today, nextFrom>>

\* Thread entry: _update_image reads today, both targets test immich_client.
ThreadStart(k) ==
    LET t == threads[k] IN
    /\ t.pc = "start"
    /\ threads' = [threads EXCEPT ![k] =
          [t EXCEPT !.today = today,
                    !.pc = IF ~immich_client THEN "finally"
                           ELSE IF t.kind = "initial" THEN "mark"
                           ELSE "fetch"]]
    /\ op' = "thread"
    /\ WithoutLock
    /\ UNCHANGED <<daily_images, current_index, last_update_date, updating,
                   disk, files, immich_client, today, nextFrom>>

\* _update_image marking the date without `self.current_index = 0`
ThreadMarkKeepingIndex(k) ==
    LET t == threads[k]
        m == save_state([Mgr EXCEPT !.last_update_date = t.today])
    IN
    /\ t.pc = "mark"
    /\ SetMgr([m EXCEPT !.threads[k].pc = "fetch"])
    /\ op' = "thread"
    /\ WithLock
    /\ UNCHANGED <<files, immich_client, today, nextFrom>>

\* _update_image taking the lock for the whole fetch loop: the lock is still
\* held when the first fetch begins
ThreadMarkHoldingLock(k) ==
    LET t == threads[k]
        m == save_state([Mgr EXCEPT !.last_update_date = t.today,
                                    !.current_index = 0])
    IN
    /\ t.pc = "mark"
    /\ SetMgr([m EXCEPT !.threads[k].pc = "fetch"])
    /\ op' = "thread"
    /\ ~update_lock /\ update_lock' = TRUE
    /\ UNCHANGED <<files, immich_client, today, nextFrom, writing, request,
                   input, output>>

\* _update_image: mark the date and reset the index under the lock
ThreadMark(k) ==
    LET t == threads[k]
        m == save_state([Mgr EXCEPT !.last_update_date = t.today,
                                    !.current_index = 0])
    IN
    /\ t.pc = "mark"
    /\ SetMgr([m EXCEPT !.threads[k].pc = "fetch"])
    /\ ThreadFrame

\* where a thread goes after one _fetch_and_store_image call returned
AfterFetch(t, ok) ==
    LET f == IF ok THEN t.filled + 1 ELSE t.filled IN
    IF t.kind = "initial" /\ t.slot + 1 < InitialFetchCount
    THEN [t EXCEPT !.slot = t.slot + 1, !.pc = "fetch", !.asset = 0, !.filled = f]
    ELSE [t EXCEPT !.pc = "finally", !.asset = 0, !.filled = f]

\* _fetch_and_store_image up to convert_image_to_bin: search, download and
\* conversion, outside the lock.  No asset or no data returns False; a
\* conversion error raises and ends the thread's try block.
ThreadFetch(k) ==
    LET t == threads[k] IN
    /\ t.pc = "fetch"
    /\ \/ threads' = [threads EXCEPT ![k] = AfterFetch(t, FALSE)]
       \/ threads' = [threads EXCEPT ![k] = [t EXCEPT !.pc = "finally"]]
       \/ \E a \in Assets :
             threads' = [threads EXCEPT ![k] = [t EXCEPT !.asset = a, !.pc = "write"]]
    /\ op' = "thread"
    /\ WithoutLock
    /\ UNCHANGED <<daily_images, current_index, last_update_date, updating,
                   disk, files, immich_client, today, nextFrom>>

\* open(filepath, 'wb').write(processed_data), outside the lock; an OSError
\* of open() raises into the thread's except block
ThreadWrite(k) ==
    LET t == threads[k] IN
    /\ t.pc = "write"
    /\ \/ /\ files' = files \cup {t.asset}
          /\ threads' = [threads EXCEPT ![k] = [t EXCEPT !.pc = "commit"]]
       \/ /\ files' = files
          /\ threads' = [threads EXCEPT ![k] = [t EXCEPT !.pc = "finally"]]
    /\ op' = "thread"
    /\ WithoutLock
    /\ UNCHANGED <<daily_images, current_index, last_update_date, updating,
                   disk, immich_client, today, nextFrom>>

\* the slot update of _fetch_and_store_image
store_image(images, slot_index, new_image) ==
    IF slot_index < Len(images)
    THEN [images EXCEPT ![slot_index + 1] = new_image]
    ELSE Append(images, new_image)

ThreadCommit(k) ==
    LET t == threads[k]
        m == save_state([Mgr EXCEPT !.daily_images =
                            store_image(daily_images, t.slot, t.asset)])
    IN
    /\ t.pc = "commit"
    /\ SetMgr([m EXCEPT !.threads[k] = AfterFetch(t, TRUE)])
    /\ ThreadFrame

\* a thread that clears `updating` at the end of its try block instead of in
\* finally: a thread that stored nothing leaves it set
ThreadFinallyOnSuccessOnly(k) ==
    LET t == threads[k] IN
    /\ t.pc = "finally"
    /\ updating' = IF t.filled > 0 THEN FALSE ELSE updating
    /\ threads' = RemoveAt(threads, k)
    /\ op' = "thread"
    /\ WithLock
    /\ UNCHANGED <<daily_images, current_index, last_update_date, disk,
                   files, immich_client, today, nextFrom>>

\* finally: with self.update_lock: self.updating = False; the thread ends
ThreadFinally(k) ==
    LET t == threads[k] IN
    /\ t.pc = "finally"
    /\ updating' = FALSE
    /\ threads' = RemoveAt(threads, k)
    /\ op' = "thread"
    /\ WithLock
    /\ UNCHANGED <<daily_images, current_index, last_update_date, disk,
                   files, immich_client, today, nextFrom>>

\* ---- environment ----

\* midnight passes
DayTick ==
    /\ today < MaxDay
    /\ today' = today + 1
    /\ op' = "tick"
    /\ WithoutLock
    /\ UNCHANGED <<daily_images, current_index, last_update_date, updating,
                   threads, disk, files, immich_client, nextFrom>>

\* The process ends (daemon threads die with it) and is started again:
\* `manager = DailyImageManager()` then `manager.ensure_daily_image()`.
\* Bitmap files may have been lost in between; the configuration may change.
Restart ==
    \E kept \in SUBSET files, client \in BOOLEAN :
        /\ files' = kept
        /\ immich_client' = client
        /\ SetMgr(ensure_daily_image(load_state(disk, kept), today))
        /\ op' = "restart"
        /\ nextFrom' = -1
        /\ update_lock' = FALSE
        /\ UNCHANGED <<today, writing, request, input, output>>

\* first start: no state file, no bitmap files
Init ==
    /\ today = 1
    /\ files = {}
    /\ immich_client \in BOOLEAN
    /\ LET m == ensure_daily_image(load_state(NoStateFile, {}), 1) IN
          /\ daily_images = m.daily_images
          /\ current_index = m.current_index
          /\ last_update_date = m.last_update_date
          /\ updating = m.updating
          /\ threads = m.threads
          /\ disk = m.disk
    /\ op = "restart"
    /\ nextFrom = -1
    /\ update_lock = FALSE
    /\ writing = {}
    /\ request = NoRequest
    /\ NoCall

Next ==
    \/ EnsureDailyImage
    \/ \E action \in Actions : HandleAction(action)
    \/ \E k \in 1..Len(threads) : ThreadStart(k)
    \/ \E k \in 1..Len(threads) : ThreadMark(k)
    \/ \E k \in 1..Len(threads) : ThreadFetch(k)
    \/ \E k \in 1..Len(threads) : ThreadWrite(k)
    \/ \E k \in 1..Len(threads) : ThreadCommit(k)
    \/ \E k \in 1..Len(threads) : ThreadFinally(k)
    \/ DayTick
    \/ Restart

Spec == Init /\ [][Next]_vars

\* ---- helpers of the properties ----

\* the slot indices a running thread is still going to fetch
TargetSlots(t) ==
    IF t.pc = "finally" THEN {}
    ELSE IF t.kind = "initial" THEN t.slot..(InitialFetchCount - 1)
    ELSE {t.slot}

\* the _fetch_and_store_image calls the running threads still have to make
RECURSIVE FetchTasks(_)
FetchTasks(ts) ==
    IF ts = <<>> THEN 0
    ELSE Cardinality(TargetSlots(Head(ts))) + FetchTasks(Tail(ts))

\* the threads without the bookkeeping fields filled and moved
Running(ts) ==
    [k \in 1..Len(ts) |->
        <<ts[k].kind, ts[k].slot, ts[k].pc, ts[k].today, ts[k].asset>>]

\* the thread started last
Newest(ts) == ts[Len(ts)]

HasImages == Len(daily_images) > 0

\* ---- properties ----

\* C1: no two running background threads fetch for the same slot index, and
\* a thread runs only while the in-flight marker `updating` is set.
C1_OneFetchPerSlot ==
    /\ \A j, k \in 1..Len(threads) :
          j # k => TargetSlots(threads[j]) \cap TargetSlots(threads[k]) = {}
    /\ Len(threads) > 0 => updating

\* C1 witness: a 'next' vacating slot s arrived while a fetch for slot s was
\* already past its start, and there is still one thread only.
C1_Witness ==
    /\ op = "next"
    /\ HasImages
    /\ Len(threads) = 1
    /\ threads[1].pc = "write"
    /\ nextFrom \in TargetSlots(threads[1])

\* C2: whenever images are stored, current_index is a valid index into them.
C2_IndexValid ==
    HasImages => (0 <= current_index /\ current_index < Len(daily_images))

C4_Original ==
    [][(op' = "next" /\ HasImages) =>
          /\ current_index' = (current_index + 1) % Len(daily_images)
          /\ Len(threads') > Len(threads) =>
                /\ Newest(threads').slot = current_index'
                /\ Newest(threads').slot # 0]_vars

\* C4 amended: 'next' advances the index modulo N, and a refresh it starts
\* targets the vacated slot (the index before the action), slot 0 included.
C4_NextRefreshesVacated ==
    [][(op' = "next" /\ HasImages) =>
          /\ current_index' = (current_index + 1) % Len(daily_images)
          /\ Len(threads') > Len(threads) =>
                Newest(threads') = SlotThread(current_index)]_vars

\* C4 witness: 'next' from index 0 moved to index 1 and started the refresh
\* of slot 0.
C4_Witness ==
    /\ op = "next"
    /\ nextFrom = 0
    /\ current_index = 1
    /\ Len(threads) = 1
    /\ threads[1] = SlotThread(0)

C6_PreviousUndoesNext ==
    [][(op' = "previous" /\ nextFrom # -1) => current_index' = nextFrom]_vars

\* C7: 'previous' changes only current_index, to (index - 1) mod N, and starts
\* no fetch; any action other than next/previous changes nothing.
C7_PreviousAndOtherFrame ==
    [][/\ op' = "previous" =>
             /\ current_index' = IF HasImages
                                 THEN (current_index - 1) % Len(daily_images)
                                 ELSE current_index
             /\ Running(threads') = Running(threads)
             /\ UNCHANGED <<daily_images, last_update_date, updating>>
       /\ op' \in {"refresh", ""} =>
             UNCHANGED <<daily_images, current_index, last_update_date,
                         updating, threads, disk>>]_vars

\* C7 witness: 'previous' wrapped from index 0 to index 2 of three images
\* with no fetch running afterwards.
C7_Witness ==
    /\ op = "previous"
    /\ Len(daily_images) = 3
    /\ current_index = 2
    /\ ~updating
    /\ threads = <<>>

\* the step is an ensure_daily_image call that finds images, no fetch in
\* flight and a last refresh date other than today
DayChangeEnsure ==
    op' = "ensure" /\ ~updating /\ HasImages /\ last_update_date # today

\* C8 as stated: on a date change slot 0 is the slot replaced (or fetched),
\* current_index is reset to 0 and the date becomes today.
C8_Original ==
    [][DayChangeEnsure =>
          /\ current_index' = 0
          /\ last_update_date' = today
          /\ \/ daily_images'[1] # daily_images[1]
             \/ \E k \in 1..Len(threads') : threads'[k].slot = 0
          /\ \A i \in 2..Len(daily_images) : daily_images'[i] = daily_images[i]]_vars

\* C8 amended: on a date change (images stored, no fetch in flight) the slot
\* scheduled for replacement is the last one, current_index is kept, the date
\* becomes today, and no slot is changed by the call.
C8_DayChangeRefreshesLastSlot ==
    [][DayChangeEnsure =>
          /\ current_index' = current_index
          /\ last_update_date' = today
          /\ daily_images' = daily_images
          /\ \A k \in 1..Len(threads') :
                threads'[k].slot = Len(daily_images) - 1]_vars

\* C8 witness: the date change was handled with three images and index 1:
\* the index stayed and the started thread targets slot 2.
C8_Witness ==
    /\ op = "ensure"
    /\ Len(daily_images) = 3
    /\ current_index = 1
    /\ last_update_date = today
    /\ today > 1
    /\ threads = <<SlotThread(2)>>

\* C9: with no fetch in flight ensure_daily_image does one of three things:
\* no images: starts the initial fetch only; images and same date: nothing;
\* images and another date: sets the date and starts one fetch of the last
\* slot, leaving images and index alone.
C9_EnsureThreeOutcomes ==
    [][(op' = "ensure" /\ ~updating) =>
          /\ UNCHANGED <<daily_images, current_index>>
          /\ ~HasImages =>
                /\ threads' = Append(threads, InitialThread)
                /\ FetchTasks(threads') = InitialFetchCount
                /\ updating'
                /\ UNCHANGED <<last_update_date, disk>>
          /\ (HasImages /\ last_update_date = today) =>
                UNCHANGED <<last_update_date, updating, threads, disk>>
          /\ (HasImages /\ last_update_date # today) =>
                /\ last_update_date' = today
                /\ updating'
                /\ threads' = Append(threads, SlotThread(Len(daily_images) - 1))
                /\ FetchTasks(threads') = 1]_vars

\* C9 witness: ensure_daily_image found images of an earlier day and started
\* the fetch of the last slot of two.
C9_Witness ==
    /\ op = "ensure"
    /\ Len(daily_images) = 2
    /\ last_update_date = today
    /\ threads = <<SlotThread(1)>>

\* C10 as stated: ensure_daily_image on an empty manager triggers 4 fetches.
C10_Original ==
    [][(op' = "ensure" /\ ~updating /\ ~HasImages) => FetchTasks(threads') = 4]_vars

\* C10 amended: ensure_daily_image on an empty manager starts one thread that
\* makes 3 fetches, for slots 0, 1 and 2; when all three have succeeded three
\* images are stored and, unless a next/previous was handled meanwhile,
\* current_index is 0 and the image served is slot 0's.
C10_InitialFetchFillsThree ==
    /\ [][(op' = "ensure" /\ ~updating /\ ~HasImages) =>
             /\ threads' = <<InitialThread>>
             /\ TargetSlots(threads'[1]) = {0, 1, 2}
             /\ FetchTasks(threads') = 3]_vars
    /\ [](\A k \in 1..Len(threads) :
             (threads[k].kind = "initial" /\ threads[k].filled = InitialFetchCount) =>
                /\ Len(daily_images) = 3
                /\ ~threads[k].moved =>
                      /\ current_index = 0
                      /\ get_image(Mgr, files) = daily_images[1])

\* C10 witness: the initial fetch has stored its third image and no
\* next/previous was handled since it reset the index.
C10_Witness ==
    /\ Len(threads) = 1
    /\ threads[1].kind = "initial"
    /\ threads[1].filled = InitialFetchCount
    /\ ~threads[1].moved
    /\ Len(daily_images) = 3
    /\ get_image(Mgr, files) = daily_images[1]

\* ---- serving, failures, locking, persistence ----

\* what serving is required to return: the current slot's bitmap, slot 0's
\* when the current slot does not exist, else not found (0)
ServeOrFallBack ==
    IF HasImages /\ current_index < Len(daily_images)
    THEN (IF daily_images[current_index + 1] \in files
          THEN daily_images[current_index + 1] ELSE 0)
    ELSE IF HasImages /\ daily_images[1] \in files THEN daily_images[1]
    ELSE 0

\* C11: serving returns the bitmap of the slot at current_index, falls back
\* to slot 0 when that slot is empty, and answers not found otherwise; it
\* never ends in an unhandled error.
C11_ServeCurrentOrNotFound ==
    /\ get_image(Mgr, files) # -1
    /\ get_image(Mgr, files) = ServeOrFallBack

\* C12: a fetch that fails stores nothing and the thread's end clears the
\* marker: the stored images change only when a thread commits (or the
\* process restarts), and every thread that ends leaves updating FALSE.
C12_FailedFetchLeavesSlot ==
    /\ [][daily_images' # daily_images =>
             \/ op' = "restart"
             \/ /\ op' = "thread"
                /\ \E k \in 1..Len(threads) : threads[k].pc = "commit"]_vars
    /\ [][(op' = "thread" /\ Len(threads') < Len(threads)) => ~updating']_vars

\* C12 witness: a slot fetch failed with a client present: the thread is at
\* its finally block having stored nothing, the images are still there.
C12_Witness ==
    /\ immich_client
    /\ HasImages
    /\ Len(threads) = 1
    /\ threads[1].kind = "slot"
    /\ threads[1].pc = "finally"
    /\ threads[1].filled = 0

\* the indices of the slots that hold no image
EmptySlots == Len(daily_images)..(InitialFetchCount - 1)

\* C13 as stated: ensure_daily_image with an empty slot and no fetch in
\* flight starts a fetch for an empty slot.
C13_Original ==
    [][(op' = "ensure" /\ ~updating /\ EmptySlots # {}) =>
          \E k \in 1..Len(threads') :
             TargetSlots(threads'[k]) \cap EmptySlots # {}]_vars

\* C13 amended: ensure_daily_image fetches for empty slots only when no image
\* at all is stored; with 1 or 2 images stored it starts no fetch for an
\* empty slot (nothing on the same date, the last stored slot on a new one).
C13_EmptySlotsNotRefetched ==
    /\ [][(op' = "ensure" /\ ~updating /\ ~HasImages) =>
             threads' = <<InitialThread>>]_vars
    /\ [][(op' = "ensure" /\ ~updating /\ HasImages) =>
             /\ Len(threads') <= 1
             /\ last_update_date = today => threads' = <<>>
             /\ \A k \in 1..Len(threads') :
                   TargetSlots(threads'[k]) \cap EmptySlots = {}]_vars

\* C13 witness: ensure_daily_image ran with two images stored, slot 2 empty,
\* a client present and no fetch in flight, and started nothing.
C13_Witness ==
    /\ op = "ensure"
    /\ immich_client
    /\ Len(daily_images) = 2
    /\ ~updating
    /\ threads = <<>>

\* C14: while a thread is searching, downloading, converting or writing the
\* bitmap file the lock is free, so the handlers can take it.
C14_LockFreeDuringFetch ==
    \A k \in 1..Len(threads) :
        threads[k].pc \in {"fetch", "write"} =>
            /\ ~update_lock
            /\ ENABLED EnsureDailyImage
            /\ ENABLED HandleAction("next")

\* C14 witness: ensure_daily_image was handled while the thread was between
\* conversion and file write.
C14_Witness ==
    /\ op = "ensure"
    /\ Len(threads) = 1
    /\ threads[1].pc = "write"

\* the state file save_state would write now
InMemory ==
    [exists |-> TRUE, date |-> last_update_date, images |-> daily_images,
     currentIndex |-> current_index]

\* s is t with some entries left out
RECURSIVE IsSubSeq(_, _)
IsSubSeq(s, t) ==
    IF s = <<>> THEN TRUE
    ELSE IF t = <<>> THEN FALSE
    ELSE IF Head(s) = Head(t) THEN IsSubSeq(Tail(s), Tail(t))
    ELSE IsSubSeq(s, Tail(t))

Surviving(d, fs) == {i \in 1..Len(d.images) : d.images[i] \in fs}

\* C17 as stated: load_state keeps the number of positions, and every entry
\* with a file stays at its position.
C17_Original ==
    [][op' = "restart" =>
          /\ Len(daily_images') = Len(disk.images)
          /\ \A i \in Surviving(disk, files') :
                daily_images'[i] = disk.images[i]]_vars

\* C17 amended: after load_state every entry has its file; entries without a
\* file are removed and the others close the gap, keeping their order: the
\* survivor at position i moves to its rank among the survivors.
C17_LoadDropsMissing ==
    [][op' = "restart" =>
          /\ \A i \in 1..Len(daily_images') : daily_images'[i] \in files'
          /\ Len(daily_images') = Cardinality(Surviving(disk, files'))
          /\ \A i \in Surviving(disk, files') :
                daily_images'[Cardinality({j \in Surviving(disk, files') : j <= i})]
                    = disk.images[i]]_vars

\* C17 witness: a restart found the first of three entries without its file;
\* the two others moved down to positions 0 and 1.
C17_Witness ==
    /\ op = "restart"
    /\ Len(disk.images) = 3
    /\ disk.images[1] \notin files
    /\ daily_images = <<disk.images[2], disk.images[3]>>

\* ======================================================================
\* Pure functions.  Each has a specification of its own: Init draws the
\* argument, the one action applies the function; the slot manager idles.
\* ======================================================================

ManagerIdle ==
    /\ daily_images = <<>>
    /\ current_index = 0
    /\ last_update_date = NoDate
    /\ updating = FALSE
    /\ threads = <<>>
    /\ disk = NoStateFile
    /\ files = {}
    /\ immich_client = TRUE
    /\ today = 1
    /\ op = "call"
    /\ nextFrom = -1
    /\ update_lock = FALSE
    /\ writing = {}
    /\ request = NoRequest

\* ---- prepare.py: resize_and_truncate ----

ImageSizes == (1..MaxDim) \X (1..MaxDim)

\* int(x) of the double computed for the quotient n/d.  When n/d is integral
\* the double can fall just below it (22x15: int(1200 * (22/15)) = 1759), so
\* the truncation gives the quotient or one less; otherwise the floor.
Truncated(n, d) ==
    IF n % d = 0 THEN {(n \div d) - 1, n \div d} ELSE {n \div d}

\* resized_image.crop((left, top, width - right, height - bottom))
Crop(rw, rh, left, top, right, bottom) ==
    [resized |-> <<rw, rh>>,
     margins |-> [left |-> left, top |-> top, right |-> right, bottom |-> bottom],
     size |-> <<(rw - right) - left, (rh - bottom) - top>>]

\* resize_and_truncate with the +1 on the leading margins
resize_leading_larger(w, h) ==
    IF w * TargetHeight > h * TargetWidth
    THEN {Crop(nw, TargetHeight, (nw - TargetWidth + 1) \div 2, 0,
               (nw - TargetWidth) \div 2, 0) :
             nw \in Truncated(TargetHeight * w, h)}
    ELSE {Crop(TargetWidth, nh, 0, (nh - TargetHeight + 1) \div 2,
               0, (nh - TargetHeight) \div 2) :
             nh \in IF w * TargetHeight = h * TargetWidth THEN {TargetHeight}
                    ELSE Truncated(TargetWidth * h, w)}

\* the results resize_and_truncate can return for a w x h image.
\* aspect_ratio > target_aspect_ratio is decided as w/h > 1600/1200; with
\* equal ratios int(1600 / aspect_ratio) is exactly 1200.
resize_and_truncate(w, h) ==
    IF w * TargetHeight > h * TargetWidth
    THEN {Crop(nw, TargetHeight, (nw - TargetWidth) \div 2, 0,
               (nw - TargetWidth + 1) \div 2, 0) :
             nw \in Truncated(TargetHeight * w, h)}
    ELSE {Crop(TargetWidth, nh, 0, (nh - TargetHeight) \div 2,
               0, (nh - TargetHeight + 1) \div 2) :
             nh \in IF w * TargetHeight = h * TargetWidth THEN {TargetHeight}
                    ELSE Truncated(TargetWidth * h, w)}

ResizeAndTruncate ==
    /\ output = <<>>
    /\ \E r \in resize_and_truncate(input[1], input[2]) : output' = <<r>>
    /\ UNCHANGED <<input, managerVars>>

ResizeInit == ManagerIdle /\ input \in ImageSizes /\ output = <<>>

ResizeSpec == ResizeInit /\ [][ResizeAndTruncate]_vars

\* the pixels cut off the cropped axis, before and after the kept part
Overflow(r) ==
    <<(r.resized[1] - TargetWidth) + (r.resized[2] - TargetHeight),
      r.margins.left + r.margins.top,
      r.margins.right + r.margins.bottom>>

\* C20: the result has exactly the target size; the scaled image is never
\* smaller than the target; the overflow is split into a leading margin of
\* floor(overflow/2) and a trailing margin of ceil(overflow/2).
C20_ResizeExactWithFloorCeilMargins ==
    \A i \in 1..Len(output) :
        LET r == output[i]
            overflow == Overflow(r)[1]
            leading == Overflow(r)[2]
            trailing == Overflow(r)[3]
        IN /\ r.size = <<TargetWidth, TargetHeight>>
           /\ r.resized[1] >= TargetWidth /\ r.resized[2] >= TargetHeight
           /\ r.resized[1] = TargetWidth \/ r.resized[2] = TargetHeight
           /\ 2 * leading <= overflow /\ overflow < 2 * leading + 2
           /\ leading + trailing = overflow
           /\ overflow % 2 = 1 => trailing = leading + 1
           /\ overflow % 2 = 0 => trailing = leading

\* C20 witness: an 11 x 7 image is scaled to 1885 x 1200; the odd overflow of
\* 285 is cut as 142 on the left and 143 on the right.
C20_Witness ==
    /\ input = <<11, 7>>
    /\ Len(output) = 1
    /\ output[1].resized = <<1885, TargetHeight>>
    /\ output[1].margins.left = 142
    /\ output[1].margins.right = 143
    /\ output[1].size = <<TargetWidth, TargetHeight>>

\* ---- prepare.py: convert_image_to_bin, from the dithered raster on ----

\* PALETTE_THEORETICAL; Python index i is position i + 1
PALETTE_THEORETICAL ==
    << <<0, 0, 0>>, <<255, 255, 255>>, <<255, 255, 0>>,
       <<255, 0, 0>>, <<0, 0, 255>>, <<0, 255, 0>> >>

\* a row of the raster floyd_steinberg_dither returns: every pixel is
\* theoretical_palette[closest_idx]; the width is even (1200 in the program)
DitheredRows ==
    UNION {[1..(2 * n) -> {PALETTE_THEORETICAL[i] : i \in 1..6}] : n \in 1..MaxPairs}

\* the exact-match loop over PALETTE_THEORETICAL: the first index whose colour
\* equals the pixel; image_data keeps its initial 0 when none does
palette_index(rgb) ==
    LET hits == {i \in 1..6 : PALETTE_THEORETICAL[i] = rgb}
    IN IF hits = {} THEN 0
       ELSE (CHOOSE i \in hits : \A j \in hits : i <= j) - 1

\* np.where without the shift of blue and green
remap_keeping_index(idx) == idx

\* np.where(image_data < 4, image_data, image_data + 1), uint8
remap(idx) == IF idx < 4 THEN idx ELSE (idx + 1) % 256

\* packing with the odd column in the high nibble
pack_odd_high(codes) ==
    [k \in 1..(Len(codes) \div 2) |->
        (codes[2 * k - 1] + ((16 * codes[2 * k]) % 256)) % 256]

\* image_data[:, 1::2] + 16 * image_data[:, ::2], uint8: Python columns
\* 2k and 2k+1 are positions 2k+1 and 2k+2 here
pack(codes) ==
    [k \in 1..(Len(codes) \div 2) |->
        (codes[2 * k] + ((16 * codes[2 * k - 1]) % 256)) % 256]

ConvertImageToBin ==
    /\ output = <<>>
    /\ LET image_data == [x \in 1..Len(input) |-> palette_index(input[x])]
           codes == [x \in 1..Len(input) |-> remap(image_data[x])]
       IN output' = <<[image_data |-> image_data, codes |-> codes,
                       bytes |-> pack(codes)]>>
    /\ UNCHANGED <<input, managerVars>>

PackInit == ManagerIdle /\ input \in DitheredRows /\ output = <<>>

PackSpec == PackInit /\ [][ConvertImageToBin]_vars

Nibbles(b) == {b \div 16, b % 16}

\* C18: no nibble of a packed byte is 4: every nibble is one of 0, 1, 2, 3,
\* 5, 6, blue (index 4) and green (index 5) being packed as 5 and 6.
C18_NoNibbleIsFour ==
    \A i \in 1..Len(output) :
        /\ \A k \in 1..Len(output[i].bytes) :
              Nibbles(output[i].bytes[k]) \subseteq {0, 1, 2, 3, 5, 6}
        /\ \A x \in 1..Len(input) :
              /\ input[x] = <<0, 0, 255>> => output[i].codes[x] = 5
              /\ input[x] = <<0, 255, 0>> => output[i].codes[x] = 6

\* C18 witness: a row beginning with a blue and a green pixel was packed into
\* a first byte of nibbles 5 and 6.
C18_Witness ==
    /\ Len(output) = 1
    /\ input[1] = <<0, 0, 255>>
    /\ input[2] = <<0, 255, 0>>
    /\ output[1].bytes[1] = 86

\* the nibbles of the bytes, high before low
Unpack(bytes) ==
    [x \in 1..(2 * Len(bytes)) |->
        IF x % 2 = 1 THEN bytes[(x + 1) \div 2] \div 16
        ELSE bytes[x \div 2] % 16]

\* C19: byte k of a row is 16 * code(even column) + code(odd column), one byte
\* per two pixels, and the nibbles give the codes back.
C19_PackEvenHighOddLow ==
    \A i \in 1..Len(output) :
        LET r == output[i] IN
        /\ 2 * Len(r.bytes) = Len(input)
        /\ \A k \in 1..Len(r.bytes) :
              /\ r.bytes[k] = 16 * r.codes[2 * k - 1] + r.codes[2 * k]
              /\ r.bytes[k] \div 16 = r.codes[2 * k - 1]
              /\ r.bytes[k] % 16 = r.codes[2 * k]
        /\ Unpack(r.bytes) = r.codes

\* C19 witness: a red pixel in column 0 and a green one in column 1 were
\* packed as the byte 16 * 3 + 6.
C19_Witness ==
    /\ Len(output) = 1
    /\ input[1] = <<255, 0, 0>>
    /\ input[2] = <<0, 255, 0>>
    /\ output[1].bytes[1] = 54
    /\ Unpack(output[1].bytes) = output[1].codes

\* ---- immich.py: find_random_group_photo, as the fetches call it ----

Persons == 1..NumPeople

\* What a search result says of its people.  embedded: the result has a
\* 'people' key, whose ids are people; otherwise get_asset_info is asked: it
\* fails (detail_ok FALSE) or gives the ids in people.
PeopleInfo ==
    {[embedded |-> TRUE, detail_ok |-> TRUE, people |-> P] : P \in SUBSET Persons}
    \cup {[embedded |-> FALSE, detail_ok |-> TRUE, people |-> P] : P \in SUBSET Persons}
    \cup {[embedded |-> FALSE, detail_ok |-> FALSE, people |-> {}]}

\* the search results: at most one per asset id
Libraries ==
    UNION {{{[id |-> a, embedded |-> f[a].embedded, detail_ok |-> f[a].detail_ok,
              people |-> f[a].people] : a \in S} : f \in [S -> PeopleInfo]} :
           S \in SUBSET Assets}

\* asset_people_ids taking a failed detail lookup for a photo of everybody
asset_people_ids_assuming_all(c) ==
    IF c.embedded \/ c.detail_ok THEN c.people ELSE Persons

asset_people_ids(c) ==
    IF c.embedded \/ c.detail_ok THEN c.people ELSE {}

\* the candidates that pass `all(pid in asset_people_ids for pid in person_ids)`
Matching(candidates, person_ids) ==
    {c \in candidates : person_ids \subseteq asset_people_ids(c)}

\* find_random_group_photo leaving out the ids returned before, while any
\* other matching candidate is left
find_excluding_shown(candidates, person_ids) ==
    LET M == {c.id : c \in Matching(candidates, person_ids)}
        fresh == M \ output.shown
    IN IF M = {} THEN {0} ELSE IF fresh = {} THEN M ELSE fresh

\* random.shuffle(candidates): every order of the search results
Shuffles(candidates) ==
    {s \in [1..Cardinality(candidates) -> candidates] :
        \A i, j \in DOMAIN s : i # j => s[i] # s[j]}

\* `for candidate in candidates`: the first candidate whose people hold all
\* of person_ids is returned, None (0) when the loop ends
RECURSIVE first_match(_, _)
first_match(order, person_ids) ==
    IF order = <<>> THEN 0
    ELSE IF person_ids \subseteq asset_people_ids(Head(order))
    THEN Head(order).id
    ELSE first_match(Tail(order), person_ids)

\* the ids find_random_group_photo can return (0 for None)
find_random_group_photo(candidates, person_ids) ==
    IF candidates = {} THEN {0}
    ELSE {first_match(order, person_ids) : order \in Shuffles(candidates)}

\* one call of a fetch, returning r.  shown holds the ids earlier calls
\* returned: each was stored in a slot and shown from there.
FindRandomGroupPhoto(r) ==
    /\ output.calls < MaxCalls
    /\ r \in find_random_group_photo(input.candidates, input.person_ids)
    /\ output' = [calls |-> output.calls + 1,
                  shown |-> output.shown \cup ({r} \ {0}),
                  last |-> r]
    /\ UNCHANGED <<input, managerVars>>

SelectInit ==
    /\ ManagerIdle
    /\ input \in [candidates : Libraries, person_ids : SUBSET Persons]
    /\ output = [calls |-> 0, shown |-> {}, last |-> 0]

SelectNext == \E r \in Assets \cup {0} : FindRandomGroupPhoto(r)

SelectSpec == SelectInit /\ [][SelectNext]_vars

MatchingIds == {c.id : c \in Matching(input.candidates, input.person_ids)}

\* C16 as stated: a selection returns no id returned before, unless the ids
\* returned before cover the whole pool.
C16_Original ==
    [][(output'.calls > output.calls /\ output'.last # 0) =>
          \/ output'.last \notin output.shown
          \/ MatchingIds \subseteq output.shown]_vars

\* C16 amended: selection takes no account of what was returned before: at
\* every call each matching candidate can be returned, one returned before
\* included, and with a matching candidate None is not returned.
C16_SelectionIgnoresShown ==
    output.calls < MaxCalls =>
        /\ \A a \in MatchingIds : ENABLED FindRandomGroupPhoto(a)
        /\ MatchingIds # {} => ~ENABLED FindRandomGroupPhoto(0)

\* C16 witness: two calls returned the same asset although another matching
\* candidate had never been returned.
C16_Witness ==
    /\ output.calls = 2
    /\ Cardinality(output.shown) = 1
    /\ Cardinality(MatchingIds) >= 2

\* the candidates whose associated people (embedded, or from the detail; none
\* known when the detail lookup failed) hold every required person
Satisfying == {c \in input.candidates : input.person_ids \subseteq c.people}

\* C21: find_random_group_photo returns only a candidate whose people are a
\* superset of the required ids, returns None exactly when there is no such
\* candidate, and never returns a candidate whose detail lookup failed when
\* a person is required.
C21_ReturnsSupersetOrNone ==
    output.calls > 0 =>
        /\ output.last # 0 => output.last \in {c.id : c \in Satisfying}
        /\ output.last = 0 <=> Satisfying = {}
        /\ input.person_ids # {} =>
              \A c \in input.candidates :
                  (~c.embedded /\ ~c.detail_ok) => output.last # c.id

\* C21 witness: with person 1 required, a candidate without embedded people
\* whose detail names persons 1 and 2 was returned, while another candidate's
\* detail lookup failed.
C21_Witness ==
    /\ output.calls > 0
    /\ input.person_ids = {1}
    /\ \E c, d \in input.candidates :
          /\ c.id = output.last
          /\ ~c.embedded /\ c.detail_ok /\ c.people = {1, 2}
          /\ ~d.embedded /\ ~d.detail_ok

\* ---- prepare.py: floyd_steinberg_dither ----

\* PALETTE_MEASURED; Python index i is position i + 1
PALETTE_MEASURED ==
    << <<2, 2, 2>>, <<190, 200, 200>>, <<205, 202, 0>>,
       <<135, 19, 0>>, <<5, 64, 158>>, <<39, 102, 60>> >>

\* float('inf') of find_closest_palette_index: above every distance of bytes
Infinity == 3 * 255 * 255 + 1

\* dr*dr + dg*dg + db*db
Distance(rgb, p) ==
    (rgb[1] - p[1]) * (rgb[1] - p[1]) + (rgb[2] - p[2]) * (rgb[2] - p[2])
        + (rgb[3] - p[3]) * (rgb[3] - p[3])

\* the loop of find_closest_palette_index from Python index i on
RECURSIVE closest_from(_, _, _, _, _)
closest_from(rgb, palette, i, min_dist, closest_idx) ==
    IF i >= Len(palette) THEN closest_idx
    ELSE LET dist == Distance(rgb, palette[i + 1]) IN
         IF dist < min_dist
         THEN closest_from(rgb, palette, i + 1, dist, i)
         ELSE closest_from(rgb, palette, i + 1, min_dist, closest_idx)

find_closest_palette_index(rgb, palette) ==
    closest_from(rgb, palette, 0, Infinity, 1)

\* the rasters given to the ditherer: w x h pixels in row-major order, the
\* pixel (x, y) at position y * w + x + 1.  <<0, 64, 94>> is as far from the
\* measured blue as from the measured green.
InputColours == {<<0, 64, 94>>, <<255, 255, 255>>, <<0, 0, 0>>}

Rasters ==
    UNION {{[w |-> w, h |-> h, px |-> f] : f \in [1..(w * h) -> InputColours]} :
           <<w, h>> \in (1..MaxSide) \X (1..MaxSide)}

\* The working buffer is kept in sixteenths: a float32 holds every sum of a
\* byte and of errors times 7/16, 3/16, 5/16, 1/16 exactly.
\* int(np.clip(v, 0, 255)) of the working value v16 / 16
clip_int(v16) ==
    IF v16 <= 0 THEN 0 ELSE IF v16 >= 16 * 255 THEN 255 ELSE v16 \div 16

\* the error diffused, were it taken against the theoretical colour emitted
diffusion_error_theoretical(old, i) ==
    <<old[1] - PALETTE_THEORETICAL[i + 1][1],
      old[2] - PALETTE_THEORETICAL[i + 1][2],
      old[3] - PALETTE_THEORETICAL[i + 1][3]>>

\* err_r, err_g, err_b: against measured_palette[closest_idx]
diffusion_error(old, i) ==
    <<old[1] - PALETTE_MEASURED[i + 1][1],
      old[2] - PALETTE_MEASURED[i + 1][2],
      old[3] - PALETTE_MEASURED[i + 1][3]>>

\* sixteenths of the error of pixel (x, y) added to pixel (qx, qy)
diffusion_weight(x, y, qx, qy) ==
    IF qy = y /\ qx = x + 1 THEN 7
    ELSE IF qy = y + 1 /\ qx = x - 1 THEN 3
    ELSE IF qy = y + 1 /\ qx = x THEN 5
    ELSE IF qy = y + 1 /\ qx = x + 1 THEN 1
    ELSE 0

\* the working buffer after `working[...] += error * k / 16.0` for the
\* neighbours of pixel (x, y), rebuilt from position q on
RECURSIVE diffuse(_, _, _, _, _, _)
diffuse(working, err, x, y, w, q) ==
    IF q > Len(working) THEN <<>>
    ELSE LET k == diffusion_weight(x, y, (q - 1) % w, (q - 1) \div w) IN
         <<<<working[q][1] + err[1] * k,
             working[q][2] + err[2] * k,
             working[q][3] + err[3] * k>>>>
           \o diffuse(working, err, x, y, w, q + 1)

\* image_array.astype(np.float32), in sixteenths, from position q on
RECURSIVE as_working(_, _)
as_working(px, q) ==
    IF q > Len(px) THEN <<>>
    ELSE <<<<16 * px[q][1], 16 * px[q][2], 16 * px[q][3]>>>> \o as_working(px, q + 1)

\* the two loops of floyd_steinberg_dither from position p on; acc collects,
\* per pixel, the colour emitted, the clipped value old and closest_idx
RECURSIVE dither_from(_, _, _, _)
dither_from(img, p, working, acc) ==
    IF p > img.w * img.h THEN acc
    ELSE LET x == (p - 1) % img.w
             y == (p - 1) \div img.w
             old == <<clip_int(working[p][1]), clip_int(working[p][2]),
                      clip_int(working[p][3])>>
             closest_idx == find_closest_palette_index(old, PALETTE_MEASURED)
             err == diffusion_error(old, closest_idx)
         IN dither_from(img, p + 1, diffuse(working, err, x, y, img.w, 1),
                [result |-> Append(acc.result, PALETTE_THEORETICAL[closest_idx + 1]),
                 old |-> Append(acc.old, old),
                 idx |-> Append(acc.idx, closest_idx)])

floyd_steinberg_dither(img) ==
    dither_from(img, 1, as_working(img.px, 1),
                [result |-> <<>>, old |-> <<>>, idx |-> <<>>])

FloydSteinbergDither ==
    /\ output = <<>>
    /\ output' = <<floyd_steinberg_dither(input)>>
    /\ UNCHANGED <<input, managerVars>>

DitherInit == ManagerIdle /\ input \in Rasters /\ output = <<>>

DitherSpec == DitherInit /\ [][FloydSteinbergDither]_vars

\* the lowest palette index at the least squared distance from rgb
LowestNearest(rgb) ==
    CHOOSE i \in 0..5 :
        \A j \in 0..5 :
            /\ Distance(rgb, PALETTE_MEASURED[i + 1]) <= Distance(rgb, PALETTE_MEASURED[j + 1])
            /\ Distance(rgb, PALETTE_MEASURED[i + 1]) = Distance(rgb, PALETTE_MEASURED[j + 1])
                  => i <= j

\* sixteenths of error that pixel p has received from the pixels before it,
\* each error being the clipped value minus the measured colour chosen
RECURSIVE Received(_, _, _, _)
Received(r, p, q, c) ==
    IF q >= p THEN 0
    ELSE LET w == input.w
             px == (p - 1) % w
             py == (p - 1) \div w
             qx == (q - 1) % w
             qy == (q - 1) \div w
             from == IF py = qy
                     THEN (IF px = qx + 1 THEN 7 ELSE 0)
                     ELSE IF py = qy + 1
                     THEN (IF px = qx - 1 THEN 3
                           ELSE IF px = qx THEN 5
                           ELSE IF px = qx + 1 THEN 1
                           ELSE 0)
                     ELSE 0
         IN from * (r.old[q][c] - PALETTE_MEASURED[r.idx[q] + 1][c])
              + Received(r, p, q + 1, c)

\* the accumulated value of pixel p, clamped to a byte
ClampedChannel(r, p, c) ==
    LET v16 == 16 * input.px[p][c] + Received(r, p, 1, c)
    IN IF v16 < 0 THEN 0 ELSE IF v16 > 4080 THEN 255 ELSE v16 \div 16

Clamped(r, p) ==
    <<ClampedChannel(r, p, 1), ClampedChannel(r, p, 2), ClampedChannel(r, p, 3)>>

\* C22: every pixel of the output is theoretical_palette[i], i the lowest
\* index nearest (squared distance) in the measured palette to the pixel's
\* clamped accumulated value, the accumulated value holding the errors of the
\* earlier pixels taken against the measured colour; so every output pixel is
\* one of the 6 theoretical colours.
C22_DitherNearestMeasured ==
    \A k \in 1..Len(output) :
        LET r == output[k] IN
        /\ Len(r.result) = input.w * input.h
        /\ \A p \in 1..Len(r.result) :
              /\ r.old[p] = Clamped(r, p)
              /\ r.idx[p] = LowestNearest(r.old[p])
              /\ r.result[p] = PALETTE_THEORETICAL[r.idx[p] + 1]
              /\ r.result[p] \in {PALETTE_THEORETICAL[i] : i \in 1..6}

\* C22 witness: a 2 x 2 raster whose first pixel is as far from the measured
\* blue as from the measured green came out blue there, and the second pixel
\* was chosen from a value the first pixel's error had changed.
C22_Witness ==
    /\ Len(output) = 1
    /\ input.w = 2 /\ input.h = 2
    /\ input.px[1] = <<0, 64, 94>>
    /\ output[1].result[1] = <<0, 0, 255>>
    /\ output[1].old[2] # input.px[2]
    /\ output[1].idx[2] # find_closest_palette_index(input.px[2], PALETTE_MEASURED)

\* ======================================================================
\* One run of the process with the bitmap files' contents: serving a
\* request next to the background fetch.  The write of <asset id>.bin is
\* two steps (open(filepath, 'wb') truncates, the with block's end closes
\* the written file); GET /api/image.bin is three (ensure_daily_image, the
\* locked choice of the image, the read outside the lock).
\* ======================================================================

\* open(filepath, 'wb'), outside the lock: the file exists and is empty from
\* here on; an OSError raises into the thread's except block
ThreadOpenFile(k) ==
    LET t == threads[k] IN
    /\ t.pc = "write"
    /\ \/ /\ files' = files \cup {t.asset}
          /\ writing' = writing \cup {t.asset}
          /\ threads' = [threads EXCEPT ![k] = [t EXCEPT !.pc = "writing"]]
       \/ /\ UNCHANGED <<files, writing>>
          /\ threads' = [threads EXCEPT ![k] = [t EXCEPT !.pc = "finally"]]
    /\ op' = "thread"
    /\ UNCHANGED <<daily_images, current_index, last_update_date, updating,
                   disk, immich_client, today, nextFrom, update_lock, request,
                   input, output>>

\* f.write(processed_data) and the end of the with block: the file is whole
ThreadCloseFile(k) ==
    LET t == threads[k] IN
    /\ t.pc = "writing"
    /\ writing' = writing \ {t.asset}
    /\ threads' = [threads EXCEPT ![k] = [t EXCEPT !.pc = "commit"]]
    /\ op' = "thread"
    /\ UNCHANGED <<daily_images, current_index, last_update_date, updating,
                   disk, files, immich_client, today, nextFrom, update_lock,
                   request, input, output>>

\* get_image: manager.ensure_daily_image()
GetImageEnsure ==
    /\ request.pc = "idle"
    /\ ~update_lock
    /\ SetMgr(ensure_daily_image(Mgr, today))
    /\ request' = [request EXCEPT !.pc = "lock"]
    /\ op' = "ensure"
    /\ nextFrom' = -1
    /\ UNCHANGED <<files, immich_client, today, update_lock, writing,
                   input, output>>

\* get_image: `with manager.update_lock:` answers 404 or takes
\* daily_images[current_index], which raises IndexError past the end
GetImagePick ==
    /\ request.pc = "lock"
    /\ ~update_lock
    /\ request' =
          IF Len(daily_images) = 0
          THEN [pc |-> "idle", image |-> 0, data |-> "404"]
          ELSE IF current_index >= Len(daily_images)
          THEN [pc |-> "idle", image |-> 0, data |-> "error"]
          ELSE [request EXCEPT !.pc = "read",
                               !.image = daily_images[current_index + 1]]
    /\ op' = "serve"
    /\ UNCHANGED <<daily_images, current_index, last_update_date, updating,
                   threads, disk, files, immich_client, today, nextFrom,
                   update_lock, writing, input, output>>

\* get_image outside the lock: os.path.exists, open(path, 'rb'), f.read()
GetImageRead ==
    /\ request.pc = "read"
    /\ request' =
          [request EXCEPT
              !.pc = "idle",
              !.data = IF request.image \notin files THEN "404"
                       ELSE IF request.image \in writing THEN "partial"
                       ELSE "complete"]
    /\ op' = "serve"
    /\ UNCHANGED <<daily_images, current_index, last_update_date, updating,
                   threads, disk, files, immich_client, today, nextFrom,
                   update_lock, writing, input, output>>

ServeNext ==
    \/ EnsureDailyImage
    \/ \E action \in Actions : HandleAction(action)
    \/ \E k \in 1..Len(threads) : ThreadStart(k)
    \/ \E k \in 1..Len(threads) : ThreadMark(k)
    \/ \E k \in 1..Len(threads) : ThreadFetch(k)
    \/ \E k \in 1..Len(threads) : ThreadOpenFile(k)
    \/ \E k \in 1..Len(threads) : ThreadCloseFile(k)
    \/ \E k \in 1..Len(threads) : ThreadCommit(k)
    \/ \E k \in 1..Len(threads) : ThreadFinally(k)
    \/ GetImageEnsure
    \/ GetImagePick
    \/ GetImageRead
    \/ DayTick

ServeSpec == Init /\ [][ServeNext]_vars

\* C23: a bitmap returned by the serve path is a completely written file: no
\* request reads a file that a fetch is in the middle of rewriting.
C23_ServedFileComplete == request.data # "partial"

\* ---- the updating flag, the image count, date rollover ----

\* the steps a thread has at most left before it has ended
StepsLeft(t) ==
    LET later == IF t.kind = "initial" THEN 3 * (InitialFetchCount - 1 - t.slot)
                 ELSE 0
    IN IF t.pc = "finally" THEN 1
       ELSE IF t.pc = "commit" THEN 2 + later
       ELSE IF t.pc = "write" THEN 3 + later
       ELSE IF t.pc = "fetch" THEN 4 + later
       ELSE IF t.pc = "mark" THEN 5 + later
       ELSE 6 + later

\* C24: updating is a single-flight marker for all slots: at most one thread
\* exists and exactly while updating is set; a thread is started only by the
\* handler step that turns updating from FALSE to TRUE; every step of a thread
\* brings its end nearer, and its last step, on every path, clears updating.
C24_SingleFlight ==
    /\ [](Len(threads) <= 1 /\ (updating <=> Len(threads) = 1))
    /\ [][(op' # "restart" /\ Len(threads') > Len(threads)) =>
             /\ op' \in {"ensure", "next"}
             /\ ~updating /\ updating'
             /\ Newest(threads').pc = "start"]_vars
    /\ [][(op' = "restart" /\ threads' # <<>>) =>
             updating' /\ threads'[1].pc = "start"]_vars
    /\ [][op' = "thread" =>
             \/ threads' = <<>> /\ threads[1].pc = "finally" /\ ~updating'
             \/ /\ Len(threads') = 1
                /\ StepsLeft(threads'[1]) < StepsLeft(threads[1])
                /\ updating']_vars

\* C24 witness: without an Immich client the initial fetch thread took its
\* early return and its finally block cleared updating.
C24_Witness ==
    /\ op = "thread"
    /\ ~immich_client
    /\ ~HasImages
    /\ threads = <<>>
    /\ ~updating

\* C25: the number of stored images never exceeds 3, never decreases while
\* the process runs, and grows only by a commit of the initial fetch thread:
\* a thread started by a day change or by 'next' commits at a position that
\* exists and never appends.
C25_CountGrowsOnlyInInitialFetch ==
    /\ [](Len(daily_images) <= InitialFetchCount)
    /\ [][op' # "restart" => Len(daily_images') >= Len(daily_images)]_vars
    /\ [][(op' # "restart" /\ Len(daily_images') > Len(daily_images)) =>
             /\ op' = "thread"
             /\ threads[1].kind = "initial"
             /\ threads[1].pc = "commit"]_vars
    /\ [][(op' = "thread" /\ threads[1].kind = "slot" /\ threads[1].pc = "commit") =>
             /\ threads[1].slot < Len(daily_images)
             /\ Len(daily_images') = Len(daily_images)]_vars

\* a date was recorded and it is not today's: the day has changed since
RolloverPending == last_update_date \notin {NoDate, today}

\* C26 as stated: after ensure_daily_image found a fetch in flight on a new
\* date, that fetch leaves last_update_date alone, so that the call after the
\* fetch still finds the day changed.
C26_Original ==
    [][(op = "ensure" /\ updating /\ RolloverPending /\ op' = "thread") =>
          last_update_date' = last_update_date]_vars

\* C26 amended: ensure_daily_image finding updating set changes nothing; a
\* slot fetch never changes last_update_date, only the initial fetch does,
\* to the date it read at its start; and ensure_daily_image finding no fetch
\* in flight, images and another date than today's records today and starts
\* the refresh of the last slot.
C26_RolloverDeferredDuringSlotFetch ==
    /\ [][(op' = "ensure" /\ updating) =>
             UNCHANGED <<last_update_date, daily_images, current_index,
                         threads, disk, updating>>]_vars
    /\ [][(op' = "thread" /\ threads[1].kind = "slot") =>
             last_update_date' = last_update_date]_vars
    /\ [][(op' = "thread" /\ last_update_date' # last_update_date) =>
             /\ threads[1].kind = "initial"
             /\ threads[1].pc = "mark"
             /\ last_update_date' = threads[1].today]_vars
    /\ [][(op' = "ensure" /\ ~updating /\ HasImages /\ last_update_date # today) =>
             /\ last_update_date' = today
             /\ updating'
             /\ threads' = <<SlotThread(Len(daily_images) - 1)>>]_vars

\* C26 witness: ensure_daily_image was called on a new date while a slot
\* fetch was downloading, and the old date is still recorded.
C26_Witness ==
    /\ op = "ensure"
    /\ updating
    /\ HasImages
    /\ RolloverPending
    /\ Len(threads) = 1
    /\ threads[1].kind = "slot"
    /\ threads[1].pc \in {"fetch", "write"}

\* C27: the day-change refresh is attempted at most once per date.  The
\* ensure_daily_image call that starts it records today before the thread
\* has run; the recorded date stays today's until the date changes, whatever
\* the fetch does; with today's date recorded and images stored,
\* ensure_daily_image starts nothing, so a thread can then only come from a
\* 'next', for the slot it left; a fetch that fails stores nothing, and a
\* slot's image changes only when a thread fetching for that slot commits.
C27_OneDayChangeFetchPerDate ==
    /\ [][(op' = "ensure" /\ ~updating /\ HasImages /\ last_update_date # today) =>
             /\ last_update_date' = today
             /\ disk'.date = today
             /\ Newest(threads').pc = "start"]_vars
    /\ [][(last_update_date = today /\ today' = today) =>
             last_update_date' = today]_vars
    /\ [][(op' = "ensure" /\ HasImages /\ last_update_date = today) =>
             UNCHANGED <<threads, updating, daily_images, last_update_date>>]_vars
    /\ [][(op' # "restart" /\ HasImages /\ last_update_date = today
              /\ Len(threads') > Len(threads)) =>
             /\ op' = "next"
             /\ Newest(threads').slot = current_index]_vars
    /\ [][(op' = "thread" /\ threads[1].pc # "commit") =>
             daily_images' = daily_images]_vars
    /\ [][op' # "restart" =>
             \A i \in 1..Len(daily_images) :
                 daily_images'[i] # daily_images[i] =>
                     /\ op' = "thread"
                     /\ threads[1].pc = "commit"
                     /\ threads[1].slot = i - 1]_vars

\* C27 witness: without an Immich client the refresh of day 2 could only
\* fail; ensure_daily_image was called again on day 2 and started nothing.
C27_Witness ==
    /\ op = "ensure"
    /\ ~immich_client
    /\ today = 2
    /\ last_update_date = today
    /\ HasImages
    /\ threads = <<>>
    /\ ~updating

====
